---- MODULE Spec2Model ----
(***************************************************************************)
(* Model of the two interactive database managers of the repository:      *)
(*   src/py/15_sqlite.py  (relational store, sqlite3)                      *)
(*   src/py/16_mongo.py   (document store, pymongo)                        *)
(* Each program is a DatabaseManager (five repository operations) driven   *)
(* by the menu loop of main().  One step of the model is one iteration of  *)
(* that loop: a menu choice, the fields typed for it, and the repository   *)
(* operation it invokes.                                                   *)
(***************************************************************************)
EXTENDS Integers, Sequences, FiniteSets, TLC

VARIABLES
    variant,          \* which of the two programs runs
    users, posts,     \* the rows / documents of the backing store
    sqlite_sequence,  \* sqlite's AUTOINCREMENT counters, one per table
    oid_inc,          \* identifiers generated so far by the document driver
    now,              \* the store's clock
    pc,               \* "menu", "exited" or "crashed"
    last,             \* the loop iteration just finished
    live,             \* history: identifiers created and not yet deleted
    dangling          \* history: a post was created for a user not stored

vars ==
    <<variant, users, posts, sqlite_sequence, oid_inc, now, pc, last, live,
      dangling>>

(***************************************************************************)
(* Bounds of the model.                                                    *)
(***************************************************************************)
\* rows / documents inserted in one run, users and posts together
MaxInserts == 3
\* last tick of the store's clock (one tick = one second for sqlite's
\* CURRENT_TIMESTAMP, one millisecond for a BSON datetime)
MaxTime == 1

(***************************************************************************)
(* Text typed at the prompts: sequences of one-character strings.          *)
(***************************************************************************)
DigitChars == <<"0", "1", "2", "3", "4", "5", "6", "7", "8", "9">>

Digits == {DigitChars[i] : i \in 1..10}

IsDigit(c) == c \in Digits

\* the value of each digit character
DigitValues == [c \in Digits |-> (CHOOSE i \in 1..10 : DigitChars[i] = c) - 1]

DigitVal(c) == DigitValues[c]

\* the decimal digit character of n, 0 <= n <= 9
DigitOf(n) == DigitChars[n + 1]

\* str.strip(): drop leading and trailing blanks
RECURSIVE LStrip(_)
LStrip(s) == IF s # <<>> /\ Head(s) = " " THEN LStrip(Tail(s)) ELSE s

RECURSIVE RStrip(_)
RStrip(s) ==
    IF s # <<>> /\ s[Len(s)] = " " THEN RStrip(SubSeq(s, 1, Len(s) - 1)) ELSE s

strip(s) == RStrip(LStrip(s))

RECURSIVE DecValue(_)
DecValue(s) ==
    IF s = <<>> THEN 0
    ELSE 10 * DecValue(SubSeq(s, 1, Len(s) - 1)) + DigitVal(s[Len(s)])

AllDigits(s) == s # <<>> /\ \A i \in 1..Len(s) : IsDigit(s[i])

\* int(text): the parsed value, or ValueError when the text is not an
\* optionally signed decimal literal
\* a parser that answers 0 where int() raises ValueError
int_Lenient(s) ==
    IF AllDigits(s) THEN [ok |-> TRUE, val |-> DecValue(s)]
    ELSE [ok |-> TRUE, val |-> 0]

int(s) ==
    IF AllDigits(s) THEN [ok |-> TRUE, val |-> DecValue(s)]
    ELSE IF s # <<>> /\ Head(s) = "+" /\ AllDigits(Tail(s))
         THEN [ok |-> TRUE, val |-> DecValue(Tail(s))]
    ELSE IF s # <<>> /\ Head(s) = "-" /\ AllDigits(Tail(s))
         THEN [ok |-> TRUE, val |-> 0 - DecValue(Tail(s))]
         ELSE [ok |-> FALSE, val |-> 0]

(***************************************************************************)
(* Inputs tried at the prompts.                                            *)
(***************************************************************************)
Names == {"Ada"}

Emails == {"ada@example.com", "bob@example.com"}

Titles == {"Hello"}

Contents == {"World"}

\* answers to "Enter age: "
AgeTexts == {<<" ", "3", "0">>, <<"x">>, <<>>}

\* answers to "Enter user ID: " in the relational variant
SqliteIdTexts ==
    {<<"1">>, <<"2">>, <<"1", "x">>, <<>>}

\* answers to the (y/n) confirmation, already stripped and lower-cased
Confirms == {"y", "n"}

(***************************************************************************)
(* Results of one loop iteration.                                          *)
(***************************************************************************)
None == [tag |-> "None"]

RetId(i) == [tag |-> "id", id |-> i]

RetBool(b) == [tag |-> "bool", b |-> b]

RetRows(r) == [tag |-> "rows", rows |-> r]

\* what a repository operation hands back to main(): the new store, the
\* returned value, the exception that left the operation ("none" when it
\* returned), and what it printed
Outcome(u, p, sq, oi, ret, exc, out) ==
    [users |-> u, posts |-> p, sqlite_sequence |-> sq, oid_inc |-> oi,
     ret |-> ret, exc |-> exc, out |-> out]

Unchanged(ret, exc, out) ==
    Outcome(users, posts, sqlite_sequence, oid_inc, ret, exc, out)

(***************************************************************************)
(* 15_sqlite.py : DatabaseManager                                          *)
(***************************************************************************)
\* a connection that enforces the declared foreign key
ForeignKeysEnforced == TRUE

\* PRAGMA foreign_keys is never issued, so sqlite3 keeps its default
ForeignKeysEnabled == FALSE

\* a users table / collection without the uniqueness constraint
UniqueEmailViolated_NoIndex(us, email) == FALSE

\* email TEXT UNIQUE NOT NULL / create_index("email", unique=True)
UniqueEmailViolated(us, email) == \E u \in us : u.email = email

\* FOREIGN KEY (user_id) REFERENCES users (id)
ForeignKeyViolated(us, user_id) ==
    ForeignKeysEnabled /\ ~ \E u \in us : u.id = user_id

\* fault = n > 0: the n-th statement sent to the store fails (disk full,
\* database locked, ...); fault = 0: the store accepts every statement
sqlite_create_user(name, email, age, t, fault) ==
    IF fault # 0
    THEN Unchanged(None, "OperationalError", <<>>)
    ELSE IF UniqueEmailViolated(users, email)
    THEN Unchanged(None, "none", <<"Error: UNIQUE constraint failed">>)
    ELSE LET id == sqlite_sequence.users + 1
         IN  Outcome(users \cup {[id |-> id, name |-> name, email |-> email,
                                  age |-> age, created_at |-> t]},
                     posts,
                     [sqlite_sequence EXCEPT !.users = id],
                     oid_inc, RetId(id), "none", <<>>)

sqlite_create_post(user_id, title, content, t, fault) ==
    IF fault # 0
    THEN Unchanged(None, "OperationalError", <<>>)
    ELSE IF ForeignKeyViolated(users, user_id)
    THEN Unchanged(None, "IntegrityError", <<>>)
    ELSE LET id == sqlite_sequence.posts + 1
         IN  Outcome(users,
                     posts \cup {[id |-> id, user_id |-> user_id,
                                  title |-> title, content |-> content,
                                  created_at |-> t]},
                     [sqlite_sequence EXCEPT !.posts = id],
                     oid_inc, RetId(id), "none", <<>>)

\* the rows of a table scan, in rowid order
RECURSIVE RowsById(_)
RowsById(rs) ==
    IF rs = {} THEN <<>>
    ELSE LET r == CHOOSE x \in rs : \A y \in rs : x.id <= y.id
         IN  <<r>> \o RowsById(rs \ {r})

\* a scan that stops after the first row
sqlite_get_all_users_Limit1(fault) ==
    IF fault # 0
    THEN Unchanged(None, "OperationalError", <<>>)
    ELSE Unchanged(RetRows(IF users = {} THEN <<>> ELSE <<RowsById(users)[1]>>),
                   "none", <<>>)

sqlite_get_all_users(fault) ==
    IF fault # 0
    THEN Unchanged(None, "OperationalError", <<>>)
    ELSE Unchanged(RetRows(RowsById(users)), "none", <<>>)

\* ORDER BY created_at DESC / sort("created_at", -1): every arrangement of
\* the rows whose timestamps never increase; rows with equal timestamps
\* come back in whatever order the store produces them
OrderByCreatedAtDesc(rs) ==
    {s \in [1..Cardinality(rs) -> rs] :
        /\ \A i, j \in 1..Cardinality(rs) : i # j => s[i] # s[j]
        /\ \A i, j \in 1..Cardinality(rs) :
              i < j => s[i].created_at >= s[j].created_at}

\* SELECT p.id, p.title, p.content, p.created_at
SqlitePostRow(p) ==
    [id |-> p.id, title |-> p.title, content |-> p.content,
     created_at |-> p.created_at]

\* a filter on the wrong column: WHERE p.id = ?
SqlitePostsOf_WrongColumn(ps, user_id) == {p \in ps : p.id = user_id}

\* WHERE p.user_id = ?
SqlitePostsOf(ps, user_id) == {p \in ps : p.user_id = user_id}

\* the possible results of get_user_posts
sqlite_get_user_posts(user_id, fault) ==
    IF fault # 0
    THEN {Unchanged(None, "OperationalError", <<>>)}
    ELSE {Unchanged(RetRows([i \in 1..Len(s) |-> SqlitePostRow(s[i])]),
                    "none", <<>>) :
            s \in OrderByCreatedAtDesc(SqlitePostsOf(posts, user_id))}

\* cursor.rowcount read after the first DELETE statement
SqliteRowcount_FirstStatement(deletedPosts, deletedUsers) ==
    Cardinality(deletedPosts)

\* cursor.rowcount after the two DELETE statements: the rows touched by
\* the statement executed last
SqliteRowcount(deletedPosts, deletedUsers) == Cardinality(deletedUsers)

\* a delete that forgets the posts
sqlite_delete_user_NoCascade(user_id, fault) ==
    IF fault # 0
    THEN Unchanged(None, "OperationalError", <<>>)
    ELSE LET deletedUsers == {u \in users : u.id = user_id}
         IN  Outcome(users \ deletedUsers, posts, sqlite_sequence, oid_inc,
                     RetBool(Cardinality(deletedUsers) > 0), "none", <<>>)

sqlite_delete_user(user_id, fault) ==
    IF fault # 0
    THEN Unchanged(None, "OperationalError", <<>>)
    ELSE LET deletedPosts == SqlitePostsOf(posts, user_id)
             deletedUsers == {u \in users : u.id = user_id}
         IN  Outcome(users \ deletedUsers, posts \ deletedPosts,
                     sqlite_sequence, oid_inc,
                     RetBool(SqliteRowcount(deletedPosts, deletedUsers) > 0),
                     "none", <<>>)

(***************************************************************************)
(* One iteration of the menu loop.                                         *)
(***************************************************************************)
\* the operations called with a user identifier
TakesUserId(op) == op \in {"create_post", "get_user_posts", "delete_user"}

\* the record of the iteration just finished; existed and owned describe
\* the store as the called operation found it
Iteration(choice, text, op, uid, email, o, shown) ==
    [choice |-> choice, text |-> text, op |-> op, uid |-> uid,
     email |-> email, ret |-> o.ret, exc |-> o.exc,
     out |-> o.out \o shown,
     existed |-> TakesUserId(op) /\ \E u \in users : u.id = uid,
     owned |-> IF TakesUserId(op)
               THEN Cardinality({p \in posts : p.user_id = uid})
               ELSE 0]

\* the identifier of a stored key as the program prints it
Printed(uid) == IF variant = "mongo" THEN uid.v ELSE uid

\* an iteration that called a repository operation: an exception that
\* leaves the operation is caught by nothing in main() and ends the program
Call(choice, text, op, uid, email, o, shown) ==
    /\ users' = o.users
    /\ posts' = o.posts
    /\ sqlite_sequence' = o.sqlite_sequence
    /\ oid_inc' = o.oid_inc
    /\ pc' = IF o.exc = "none" THEN "menu" ELSE "crashed"
    /\ last' = Iteration(choice, text, op, uid, email, o,
                         IF o.exc = "none" THEN shown ELSE <<>>)
    /\ live' = IF op = "create_user" /\ o.ret.tag = "id"
               THEN live \cup {o.ret.id}
               ELSE IF op = "delete_user" /\ o.ret.tag = "bool" /\ o.ret.b
               THEN live \ {Printed(uid)}
               ELSE live
    /\ dangling' = (dangling \/ (op = "create_post"
                                 /\ ~ \E u \in users : u.id = uid))

\* an iteration that called nothing
NoCall(choice, text, shown, nextpc) ==
    /\ UNCHANGED <<users, posts, sqlite_sequence, oid_inc, now, live, dangling>>
    /\ pc' = nextpc
    /\ last' = Iteration(choice, text, "none", 0, "",
                         Unchanged(None, "none", <<>>), shown)

\* the clock read by an insert
Clock(t) == t \in now..MaxTime /\ now' = t

(***************************************************************************)
(* 15_sqlite.py : main                                                     *)
(***************************************************************************)
sqlite_main_1(name, email, ageText, t, fault) ==
    /\ variant = "sqlite" /\ pc = "menu"
    /\ LET age == int(strip(ageText))
       IN  IF ~ age.ok
           THEN /\ fault = 0 /\ t = now
                /\ NoCall("1", ageText,
                          <<"Invalid age. Please enter a number.">>, "menu")
           ELSE /\ Clock(t)
                /\ LET o == sqlite_create_user(name, email, age.val, t, fault)
                   IN  /\ o.sqlite_sequence.users + o.sqlite_sequence.posts
                              <= MaxInserts
                       /\ Call("1", ageText, "create_user", 0, email, o,
                               IF o.ret.tag = "id"
                               THEN <<"User created successfully!">>
                               ELSE <<"Failed to create user">>)
    /\ UNCHANGED variant

sqlite_main_2(fault) ==
    /\ variant = "sqlite" /\ pc = "menu"
    /\ LET o == sqlite_get_all_users(fault)
       IN  Call("2", <<>>, "get_all_users", 0, "", o,
                IF o.ret.tag = "rows" /\ o.ret.rows # <<>>
                THEN <<"users">> ELSE <<"No users found.">>)
    /\ UNCHANGED <<variant, now>>

sqlite_main_3(idText, title, content, t, fault) ==
    /\ variant = "sqlite" /\ pc = "menu"
    /\ LET user_id == int(strip(idText))
       IN  IF ~ user_id.ok
           THEN /\ fault = 0 /\ t = now
                /\ NoCall("3", idText,
                          <<"Invalid user ID. Please enter a number">>, "menu")
           ELSE /\ Clock(t)
                /\ LET o == sqlite_create_post(user_id.val, title, content,
                                               t, fault)
                   IN  /\ o.sqlite_sequence.users + o.sqlite_sequence.posts
                              <= MaxInserts
                       /\ Call("3", idText, "create_post", user_id.val, "", o,
                               IF o.ret.tag = "id"
                               THEN <<"Post created successfully!">>
                               ELSE <<"Failed to create post">>)
    /\ UNCHANGED variant

sqlite_main_4(idText, fault) ==
    /\ variant = "sqlite" /\ pc = "menu"
    /\ LET user_id == int(strip(idText))
       IN  IF ~ user_id.ok
           THEN /\ fault = 0
                /\ NoCall("4", idText,
                          <<"Invalid user ID. Please enter a number.">>, "menu")
           ELSE /\ \E o \in sqlite_get_user_posts(user_id.val, fault) :
                      Call("4", idText, "get_user_posts", user_id.val, "", o,
                           IF o.ret.tag = "rows" /\ o.ret.rows # <<>>
                           THEN <<"posts">>
                           ELSE <<"No posts found for this user.">>)
                /\ UNCHANGED now
    /\ UNCHANGED variant

sqlite_main_5(idText, confirm, fault) ==
    /\ variant = "sqlite" /\ pc = "menu"
    /\ LET user_id == int(strip(idText))
       IN  IF ~ user_id.ok
           THEN /\ fault = 0 /\ confirm = "n"
                /\ NoCall("5", idText,
                          <<"Invalid user ID. Please enter a number.">>, "menu")
           ELSE IF confirm # "y"
           THEN /\ fault = 0
                /\ NoCall("5", idText, <<"Deletion cancelled">>, "menu")
           ELSE /\ LET o == sqlite_delete_user(user_id.val, fault)
                   IN  Call("5", idText, "delete_user", user_id.val, "", o,
                            IF o.ret.tag = "bool" /\ o.ret.b
                            THEN <<"User deleted successfully!">>
                            ELSE <<"User not found or deletion failed.">>)
                /\ UNCHANGED now
    /\ UNCHANGED variant

sqlite_main_6 ==
    /\ variant = "sqlite" /\ pc = "menu"
    /\ NoCall("6", <<>>, <<"Goodbye!">>, "exited")
    /\ UNCHANGED variant

sqlite_main_else ==
    /\ variant = "sqlite" /\ pc = "menu"
    /\ NoCall("other", <<>>, <<"Invalid choice. Please enter 1-6">>, "menu")
    /\ UNCHANGED variant

(***************************************************************************)
(* 16_mongo.py : identifiers                                               *)
(***************************************************************************)
\* length of the hexadecimal form of an ObjectId
OidLen == 24

LowerHex == <<"a", "b", "c", "d", "e", "f">>

UpperHex == <<"A", "B", "C", "D", "E", "F">>

HexChars == Digits \cup {LowerHex[i] : i \in 1..6} \cup {UpperHex[i] : i \in 1..6}

IsHex(c) == c \in HexChars

\* each hexadecimal digit as bytes.fromhex reads it and str() renders it
LowerOf ==
    [c \in HexChars |->
        IF \E i \in 1..6 : UpperHex[i] = c
        THEN LowerHex[CHOOSE i \in 1..6 : UpperHex[i] = c]
        ELSE c]

Lower(c) == LowerOf[c]

\* ObjectId.is_valid(text)
ObjectId_is_valid(text) ==
    /\ text # <<>>
    /\ Len(text) = OidLen
    /\ \A i \in 1..Len(text) : IsHex(text[i])

\* ObjectId(text), for a valid text
ObjectId(text) == [t |-> "oid", v |-> [i \in 1..Len(text) |-> Lower(text[i])]]

\* ObjectId(user_id) if ObjectId.is_valid(user_id) else user_id
user_object_id(text) ==
    IF ObjectId_is_valid(text) THEN ObjectId(text) ELSE [t |-> "str", v |-> text]

\* str(value) of an ObjectId or of a string
str(k) == k.v

\* the n-th identifier generated by the driver
NewObjectId(n) ==
    [t |-> "oid", v |-> [i \in 1..OidLen |-> IF i = OidLen THEN DigitOf(n) ELSE "a"]]

\* answers to "Enter user ID: " in the document variant: the first
\* generated identifier as printed, the same in capitals, and text that is
\* no ObjectId
MongoIdTexts ==
    {str(NewObjectId(1)),
     [i \in 1..OidLen |-> IF i = OidLen THEN "1" ELSE "A"],
     <<"1">>}

(***************************************************************************)
(* 16_mongo.py : DatabaseManager                                           *)
(***************************************************************************)
\* fault = n > 0: the n-th request sent to the server fails
mongo_create_user(name, email, age, t, fault) ==
    IF fault # 0
    THEN Unchanged(None, "none", <<"Error: ">>)
    ELSE IF UniqueEmailViolated(users, email)
    THEN Unchanged(None, "none", <<"Error: duplicate key">>)
    ELSE LET id == NewObjectId(oid_inc + 1)
         IN  Outcome(users \cup {[id |-> id, name |-> name, email |-> email,
                                  age |-> age, created_at |-> t]},
                     posts, sqlite_sequence, oid_inc + 1,
                     RetId(str(id)), "none", <<>>)

mongo_create_post(user_id, title, content, t, fault) ==
    IF fault # 0
    THEN Unchanged(None, "none", <<"Error creating post: ">>)
    ELSE LET id == NewObjectId(oid_inc + 1)
         IN  Outcome(users,
                     posts \cup {[id |-> id, user_id |-> user_object_id(user_id),
                                  title |-> title, content |-> content,
                                  created_at |-> t]},
                     sqlite_sequence, oid_inc + 1,
                     RetId(str(id)), "none", <<>>)

\* user['_id'] = str(user['_id'])
MongoUserRow(u) == [u EXCEPT !.id = str(u.id)]

RECURSIVE RowsByOid(_)
RowsByOid(rs) ==
    IF rs = {} THEN <<>>
    ELSE LET r == CHOOSE x \in rs :
                    \A y \in rs : DigitVal(x.id.v[OidLen]) <= DigitVal(y.id.v[OidLen])
         IN  <<r>> \o RowsByOid(rs \ {r})

mongo_get_all_users(fault) ==
    IF fault # 0
    THEN Unchanged(RetRows(<<>>), "none", <<"Error fetching users: ">>)
    ELSE LET rows == RowsByOid(users)
         IN  Unchanged(RetRows([i \in 1..Len(rows) |-> MongoUserRow(rows[i])]),
                       "none", <<>>)

\* post['_id'] = str(post['_id']); post['user_id'] = str(post['user_id'])
MongoPostRow(p) == [p EXCEPT !.id = str(p.id), !.user_id = str(p.user_id)]

\* a filter that compares the stored key with the text as typed
MongoPostsOf_Raw(ps, key) == {p \in ps : p.user_id = [t |-> "str", v |-> key.v]}

\* find({"user_id": user_object_id}) / delete_many({"user_id": ...})
MongoPostsOf(ps, key) == {p \in ps : p.user_id = key}

mongo_get_user_posts(user_id, fault) ==
    IF fault # 0
    THEN {Unchanged(RetRows(<<>>), "none", <<"Error fetching post: ">>)}
    ELSE {Unchanged(RetRows([i \in 1..Len(s) |-> MongoPostRow(s[i])]),
                    "none", <<>>) :
            s \in OrderByCreatedAtDesc(MongoPostsOf(posts, user_object_id(user_id)))}

\* result.deleted_count of delete_one
MongoDeletedCount(deletedPosts, deletedUsers) == Cardinality(deletedUsers)

mongo_delete_user(user_id, fault) ==
    LET key == user_object_id(user_id)
        deletedPosts == MongoPostsOf(posts, key)
        deletedUsers == {u \in users : u.id = key}
    IN  IF fault = 1
        THEN Unchanged(RetBool(FALSE), "none", <<"Error deleting user: ">>)
        ELSE IF fault = 2
        THEN Outcome(users, posts \ deletedPosts, sqlite_sequence, oid_inc,
                     RetBool(FALSE), "none", <<"Error deleting user: ">>)
        ELSE Outcome(users \ deletedUsers, posts \ deletedPosts,
                     sqlite_sequence, oid_inc,
                     RetBool(MongoDeletedCount(deletedPosts, deletedUsers) > 0),
                     "none", <<>>)

(***************************************************************************)
(* 16_mongo.py : main                                                      *)
(***************************************************************************)
mongo_main_1(name, email, ageText, t, fault) ==
    /\ variant = "mongo" /\ pc = "menu"
    /\ LET age == int(strip(ageText))
       IN  IF ~ age.ok
           THEN /\ fault = 0 /\ t = now
                /\ NoCall("1", ageText,
                          <<"Invalid age. Please enter a number.">>, "menu")
           ELSE /\ Clock(t)
                /\ LET o == mongo_create_user(name, email, age.val, t, fault)
                   IN  /\ o.oid_inc <= MaxInserts
                       /\ Call("1", ageText, "create_user", 0, email, o,
                               IF o.ret.tag = "id"
                               THEN <<"User created successfully!">>
                               ELSE <<"Failed to create user">>)
    /\ UNCHANGED variant

mongo_main_2(fault) ==
    /\ variant = "mongo" /\ pc = "menu"
    /\ LET o == mongo_get_all_users(fault)
       IN  Call("2", <<>>, "get_all_users", 0, "", o,
                IF o.ret.rows # <<>> THEN <<"users">> ELSE <<"No users found.">>)
    /\ UNCHANGED <<variant, now>>

mongo_main_3(idText, title, content, t, fault) ==
    /\ variant = "mongo" /\ pc = "menu"
    /\ Clock(t)
    /\ LET o == mongo_create_post(strip(idText), title, content, t, fault)
       IN  /\ o.oid_inc <= MaxInserts
           /\ Call("3", idText, "create_post", user_object_id(strip(idText)),
                   "", o,
                   IF o.ret.tag = "id"
                   THEN <<"Post created successfully!">>
                   ELSE <<"Failed to create post">>)
    /\ UNCHANGED variant

mongo_main_4(idText, fault) ==
    /\ variant = "mongo" /\ pc = "menu"
    /\ \E o \in mongo_get_user_posts(strip(idText), fault) :
          Call("4", idText, "get_user_posts", user_object_id(strip(idText)),
               "", o,
               IF o.ret.rows # <<>>
               THEN <<"posts">> ELSE <<"No posts found for this user.">>)
    /\ UNCHANGED <<variant, now>>

mongo_main_5(idText, confirm, fault) ==
    /\ variant = "mongo" /\ pc = "menu"
    /\ IF confirm # "y"
       THEN /\ fault = 0
            /\ NoCall("5", idText, <<>>, "menu")
       ELSE /\ LET o == mongo_delete_user(strip(idText), fault)
               IN  Call("5", idText, "delete_user",
                        user_object_id(strip(idText)), "", o,
                        IF o.ret.b
                        THEN <<"User deleted successfully!">>
                        ELSE <<"User not found or deletion failed.">>)
            /\ UNCHANGED now
    /\ UNCHANGED variant

mongo_main_6 ==
    /\ variant = "mongo" /\ pc = "menu"
    /\ NoCall("6", <<>>, <<"Goodbye!">>, "exited")
    /\ UNCHANGED variant

mongo_main_else ==
    /\ variant = "mongo" /\ pc = "menu"
    /\ NoCall("other", <<>>, <<>>, "menu")
    /\ UNCHANGED variant

(***************************************************************************)
(* The two programs, started on an empty store.                            *)
(***************************************************************************)
Init ==
    /\ variant \in {"sqlite", "mongo"}
    /\ users = {}
    /\ posts = {}
    /\ sqlite_sequence = [users |-> 0, posts |-> 0]
    /\ oid_inc = 0
    /\ now = 0
    /\ pc = "menu"
    /\ last = [choice |-> "start", text |-> <<>>, op |-> "none", uid |-> 0,
               email |-> "", ret |-> None, exc |-> "none", out |-> <<>>,
               existed |-> FALSE, owned |-> 0]
    /\ live = {}
    /\ dangling = FALSE

\* one loop iteration, the store failing at its fault-th request
Iterate(F1, F2) ==
    \/ \E n \in Names, e \in Emails, a \in AgeTexts, t \in 0..MaxTime, f \in F1 :
          sqlite_main_1(n, e, a, t, f)
    \/ \E f \in F1 : sqlite_main_2(f)
    \/ \E i \in SqliteIdTexts, ti \in Titles, c \in Contents, t \in 0..MaxTime,
          f \in F1 : sqlite_main_3(i, ti, c, t, f)
    \/ \E i \in SqliteIdTexts, f \in F1 : sqlite_main_4(i, f)
    \/ \E i \in SqliteIdTexts, c \in Confirms, f \in F2 : sqlite_main_5(i, c, f)
    \/ sqlite_main_6
    \/ sqlite_main_else
    \/ \E n \in Names, e \in Emails, a \in AgeTexts, t \in 0..MaxTime, f \in F1 :
          mongo_main_1(n, e, a, t, f)
    \/ \E f \in F1 : mongo_main_2(f)
    \/ \E i \in MongoIdTexts, ti \in Titles, c \in Contents, t \in 0..MaxTime,
          f \in F1 : mongo_main_3(i, ti, c, t, f)
    \/ \E i \in MongoIdTexts, f \in F1 : mongo_main_4(i, f)
    \/ \E i \in MongoIdTexts, c \in Confirms, f \in F2 : mongo_main_5(i, c, f)
    \/ mongo_main_6
    \/ mongo_main_else

\* the backing store accepts every request
Next == Iterate({0}, {0})

Spec == Init /\ [][Next]_vars

\* the backing store may fail any request
NextFault == Iterate({0, 1}, {0, 1, 2})

SpecFault == Init /\ [][NextFault]_vars

(***************************************************************************)
(* Properties.                                                             *)
(***************************************************************************)
\* the rows of the value returned by the last operation
RowsOf(l) == IF l.ret.tag = "rows" THEN l.ret.rows ELSE <<>>

RowIds(rows) == {rows[i].id : i \in 1..Len(rows)}

\* position of an identifier in the order of creation
CreationOrder(id) == IF variant = "mongo" THEN DigitVal(id[OidLen]) ELSE id

\* text that Python reads as an integer: a run of digits, possibly signed,
\* possibly surrounded by blanks
IsIntegerText(t) ==
    \E i, j \in 1..Len(t) :
        /\ i <= j
        /\ \A k \in 1..Len(t) : (k < i \/ k > j) => t[k] = " "
        /\ \A k \in i..j :
              IsDigit(t[k]) \/ (k = i /\ i < j /\ t[k] \in {"+", "-"})

\* C1 (first part): create_user with an email that a stored user already
\* has returns None without raising and changes neither users nor posts.
C1_DuplicateRejected ==
    [][(last'.op = "create_user" /\ \E u \in users : u.email = last'.email)
         => /\ last'.ret = None
            /\ last'.exc = "none"
            /\ pc' = "menu"
            /\ users' = users
            /\ posts' = posts]_vars

\* C1 (second part): no two stored users share an email.
C1_EmailUnique == \A u, v \in users : u.email = v.email => u = v

\* C1: a duplicate email is refused with the failure sentinel, the store is
\* left as it was, and emails stay unique in every reachable state.
C1_Theorem == []C1_EmailUnique /\ C1_DuplicateRejected

C1_Witness ==
    /\ last.op = "create_user"
    /\ last.ret = None
    /\ pc = "menu"
    /\ \E u \in users : u.email = last.email

\* C2: after delete_user(u) has returned, exactly the user u and the posts
\* owned by u are gone; every other user and post is stored unchanged.
C2_Theorem ==
    [][(last'.op = "delete_user" /\ pc' = "menu")
         => /\ users' = {u \in users : u.id # last'.uid}
            /\ posts' = {p \in posts : p.user_id # last'.uid}]_vars

C2_Witness ==
    /\ last.op = "delete_user"
    /\ pc = "menu"
    /\ last.existed
    /\ last.owned > 0
    /\ posts # {}

\* C3 as claimed: delete_user(u) for an identifier with no stored user
\* returns false and leaves users and posts as they were.
C3_Original ==
    [][(last'.op = "delete_user" /\ ~ \E u \in users : u.id = last'.uid)
         => /\ last'.ret = RetBool(FALSE)
            /\ users' = users
            /\ posts' = posts]_vars

\* C3 as amended: delete_user(u) for an identifier with no stored user
\* returns false and leaves users as they were; it removes the posts whose
\* owning identifier is u and leaves every other post as it was.
C3_Theorem ==
    [][(last'.op = "delete_user" /\ ~ \E u \in users : u.id = last'.uid)
         => /\ last'.ret = RetBool(FALSE)
            /\ users' = users
            /\ posts' = {p \in posts : p.user_id # last'.uid}]_vars

C3_Witness ==
    /\ last.op = "delete_user"
    /\ ~ last.existed
    /\ last.owned > 0
    /\ last.ret = RetBool(FALSE)
    /\ \A p \in posts : p.user_id # last.uid

\* C4: delete_user(u) returns true exactly when a user u was stored just
\* before the call, however many posts of u the call deleted.
C4_Theorem ==
    (last.op = "delete_user" /\ pc = "menu")
        => last.ret = RetBool(last.existed)

C4_Witness ==
    /\ last.op = "delete_user"
    /\ last.existed
    /\ last.owned = 0
    /\ last.ret = RetBool(TRUE)

\* C5: get_user_posts(u) returns exactly the stored posts owned by u, and
\* of any two returned posts the one created later comes first.
C5_NewestFirst ==
    (last.op = "get_user_posts" /\ pc = "menu")
        => LET rows == RowsOf(last)
           IN  /\ RowIds(rows)
                    = {Printed(p.id) : p \in {q \in posts : q.user_id = last.uid}}
               /\ \A i, j \in 1..Len(rows) :
                     i < j => CreationOrder(rows[i].id) > CreationOrder(rows[j].id)

\* C6: get_all_users returns exactly one entry for each user created and
\* not since deleted.
C6_Theorem ==
    (last.op = "get_all_users" /\ pc = "menu")
        => LET rows == RowsOf(last)
           IN  /\ RowIds(rows) = live
               /\ Len(rows) = Cardinality(live)

C6_Witness ==
    /\ last.op = "get_all_users"
    /\ Len(RowsOf(last)) = 2
    /\ Cardinality(live) = 2

\* the results get_user_posts would give now for the last call's user
PostsNow ==
    IF variant = "mongo"
    THEN mongo_get_user_posts(strip(last.text), 0)
    ELSE sqlite_get_user_posts(last.uid, 0)

\* C7: create_post for an identifier with no stored user is not rejected:
\* it stores a post owned by that identifier, returns the new post's
\* identifier, and get_user_posts of that identifier returns the post.
C7_Theorem ==
    (last.op = "create_post" /\ ~ last.existed)
        => /\ pc = "menu"
           /\ last.ret.tag = "id"
           /\ \E p \in posts :
                 Printed(p.id) = last.ret.id /\ p.user_id = last.uid
           /\ \A o \in PostsNow : last.ret.id \in RowIds(o.ret.rows)

C7_Witness ==
    /\ last.op = "create_post"
    /\ ~ last.existed
    /\ last.ret.tag = "id"
    /\ users # {}

\* the menu options that prompt for an age or a user id
NumericPrompt(l) == l.choice \in {"1", "3", "4", "5"}

\* the iteration reported the input and did nothing else
Reported ==
    /\ last'.op = "none"
    /\ last'.out # <<>>
    /\ pc' = "menu"
    /\ users' = users
    /\ posts' = posts

\* C8 as claimed: in both programs, text that is not an integer, typed for
\* an age or a user id, is reported; no operation is called, the store is
\* unchanged and the loop goes back to the menu.
C8_Original ==
    [][(NumericPrompt(last') /\ ~ IsIntegerText(last'.text)) => Reported]_vars

\* C8 as amended: that holds for every numeric prompt of the relational
\* program and for the age prompt of the document program; the document
\* program does not parse user ids and hands the text to the operation.
C8_Theorem ==
    [][/\ (/\ NumericPrompt(last')
           /\ ~ IsIntegerText(last'.text)
           /\ (variant = "sqlite" \/ last'.choice = "1"))
          => Reported
       /\ (variant = "mongo" /\ last'.choice \in {"3", "4"})
          => last'.op # "none"]_vars

C8_Witness ==
    /\ variant = "sqlite"
    /\ last.choice = "5"
    /\ ~ IsIntegerText(last.text)
    /\ last.op = "none"
    /\ pc = "menu"
    /\ users # {}

\* C9: no failure of the backing store leaves a repository operation as an
\* exception or ends the menu loop.
C9_NoFatalError == last.exc = "none" /\ pc # "crashed"

\* C10: as long as no post was created for a user not stored at that time,
\* every stored post is owned by a stored user.
C10_Theorem ==
    ~ dangling => \A p \in posts : \E u \in users : u.id = p.user_id

C10_Witness ==
    /\ ~ dangling
    /\ last.op = "delete_user"
    /\ last.ret = RetBool(TRUE)
    /\ last.owned > 0
    /\ users # {}

====
